---- MODULE Spec2Model ----
(***************************************************************************)
(* Resilience layer of the application: the circuit breaker and its        *)
(* registry (backend/src/middleware/circuitBreaker.ts, shipped inside      *)
(* errors.d.ts) together with the error taxonomy it raises.                *)
(*                                                                         *)
(* A breaker is an object with a configuration and a mutable state.        *)
(* execute() is an async function: a synchronous gate (reject, or invoke   *)
(* the operation), then - after the await - onSuccess()/onFailure().  The  *)
(* runtime is a single-threaded event loop, so the gate and each           *)
(* continuation are atomic steps, and several operations of one breaker    *)
(* may be in flight between them.                                          *)
(***************************************************************************)
EXTENDS Integers, FiniteSets, Sequences, TLC

VARIABLES
    circuitBreakers,  \* CircuitBreakerRegistry.circuitBreakers: name -> breaker
    now,              \* Date.now()
    pending,          \* per breaker: operations awaited inside execute()
    event,            \* what the latest step did and what its caller observed
    run,              \* history: failed operations recorded since the last success/reset
    trial,            \* history: successes recorded since a trial was admitted, -1 outside a trial phase
    fresh,            \* history: no trial admitted since construction/reset
    constructed,      \* history: number of CircuitBreaker constructions per name
    hits,             \* rate limiter store: rule -> caller key -> counter of the current window
    decision,         \* what the latest rate-limit check decided
    nodeEnv,          \* process.env.NODE_ENV
    req,              \* the request being handled
    stage,            \* where the request is in the middleware chain
    nextCalls,        \* the errors passed to next() for this request, in order
    res,              \* the response sent for this request
    logs,             \* the log entries emitted for this request, in order
    handled           \* history: the error as raised and as the central handler answered it

limiterVars == <<hits, decision>>

handlerVars == <<nodeEnv, req, stage, nextCalls, res, logs, handled>>

vars == <<circuitBreakers, now, pending, event, run, trial, fresh, constructed,
          hits, decision, nodeEnv, req, stage, nextCalls, res, logs, handled>>

-----------------------------------------------------------------------------
(* Bounds *)

MaxTime == 4
MaxPending == 2
MaxFailureCount == 4
RegistryMaxTime == 2

\* The instants at which the clock is sampled: a dense prefix and three
\* instants 30 s, 60 s and 61 s after instant 1 (in milliseconds).
Instants == (1..MaxTime) \cup {30001, 60001, 61001}

Names == {"ai", "db"}
BreakerNames == {"ai"}

-----------------------------------------------------------------------------
(* Values *)

null == -1

\* JavaScript falsiness of an optional number: undefined/null and 0.
Falsy(x) == x = null \/ x = 0

\* a || b
OrElse(a, b) == IF Falsy(a) THEN b ELSE a

DefaultFailureThreshold == 5
DefaultSuccessThreshold == 2
DefaultTimeout == 60000
DefaultMonitoringPeriod == 300000

PartialConfig(f, s, t, m) ==
    [failureThreshold |-> f, successThreshold |-> s, timeout |-> t, monitoringPeriod |-> m]

\* Configurations handed to the constructor by callers.
ScenarioConfig == PartialConfig(3, 2, 60000, null)

ConfigInputs ==
    {PartialConfig(f, s, t, null) : f \in {1, 2}, s \in {1, 2}, t \in {1, 2}}
        \cup {ScenarioConfig}

RegistryConfigInputs ==
    {PartialConfig(1, 1, 1, null), PartialConfig(2, 2, 1, null),
     PartialConfig(null, null, null, null)}

\* CircuitBreakerError of the error taxonomy.
CircuitBreakerError(name) ==
    [kind |-> "error", class |-> "CircuitBreakerError", code |-> "CIRCUIT_BREAKER_OPEN",
     severity |-> "HIGH", statusCode |-> 503, circuitBreaker |-> name]

\* Outcomes of the wrapped operation: a result, or an error of its own.
OperationError(class, code, severity, statusCode) ==
    [kind |-> "error", class |-> class, code |-> code,
     severity |-> severity, statusCode |-> statusCode, circuitBreaker |-> "-"]

OperationResult ==
    [kind |-> "value", class |-> "-", code |-> "-",
     severity |-> "-", statusCode |-> 200, circuitBreaker |-> "-"]

NoResult ==
    [kind |-> "none", class |-> "-", code |-> "-",
     severity |-> "-", statusCode |-> 0, circuitBreaker |-> "-"]

OperationErrors ==
    {OperationError("ExternalServiceError", "EXTERNAL_SERVICE_ERROR", "HIGH", 502),
     OperationError("Error", "-", "-", 0)}

OperationOutcomes == {OperationResult} \cup OperationErrors

-----------------------------------------------------------------------------
(* CircuitBreaker *)

InitialState ==
    [isOpen |-> FALSE, failureCount |-> 0, successCount |-> 0,
     lastFailureTime |-> null, lastSuccessTime |-> null]

\* constructor(name, config)
CircuitBreaker(config) ==
    [config |-> [failureThreshold |-> OrElse(config.failureThreshold, DefaultFailureThreshold),
                 successThreshold |-> OrElse(config.successThreshold, DefaultSuccessThreshold),
                 timeout |-> OrElse(config.timeout, DefaultTimeout),
                 monitoringPeriod |-> OrElse(config.monitoringPeriod, DefaultMonitoringPeriod)],
     state |-> InitialState]

isOpen(cb) == cb.state.isOpen

\* Date.now() read as seconds against a timeout in milliseconds.
shouldAttemptReset_units(cb, t) ==
    IF Falsy(cb.state.lastFailureTime)
    THEN FALSE
    ELSE LET timeSinceLastFailure == (t - cb.state.lastFailureTime) * 1000
         IN  timeSinceLastFailure > cb.config.timeout

shouldAttemptReset(cb, t) ==
    IF Falsy(cb.state.lastFailureTime)
    THEN FALSE
    ELSE LET timeSinceLastFailure == t - cb.state.lastFailureTime
         IN  timeSinceLastFailure > cb.config.timeout

\* The threshold compared with > instead of >=.
onSuccess_offByOne(cb, t) ==
    LET s1 == [cb.state EXCEPT !.successCount = @ + 1,
                               !.failureCount = 0,
                               !.lastSuccessTime = t]
    IN  IF s1.successCount > cb.config.successThreshold
        THEN [cb EXCEPT !.state = [s1 EXCEPT !.isOpen = FALSE, !.successCount = 0]]
        ELSE [cb EXCEPT !.state = s1]

\* The failure count left alone by a success.
onSuccess_keepFailures(cb, t) ==
    LET s1 == [cb.state EXCEPT !.successCount = @ + 1,
                               !.lastSuccessTime = t]
    IN  IF s1.successCount >= cb.config.successThreshold
        THEN [cb EXCEPT !.state = [s1 EXCEPT !.isOpen = FALSE, !.successCount = 0]]
        ELSE [cb EXCEPT !.state = s1]

onSuccess(cb, t) ==
    LET s1 == [cb.state EXCEPT !.successCount = @ + 1,
                               !.failureCount = 0,
                               !.lastSuccessTime = t]
    IN  IF s1.successCount >= cb.config.successThreshold
        THEN [cb EXCEPT !.state = [s1 EXCEPT !.isOpen = FALSE, !.successCount = 0]]
        ELSE [cb EXCEPT !.state = s1]

\* The threshold compared with > instead of >=.
onFailure_offByOne(cb, t) ==
    LET s1 == [cb.state EXCEPT !.failureCount = @ + 1,
                               !.lastFailureTime = t]
    IN  IF s1.failureCount > cb.config.failureThreshold
        THEN [cb EXCEPT !.state = [s1 EXCEPT !.isOpen = TRUE]]
        ELSE [cb EXCEPT !.state = s1]

\* Failures counted within monitoringPeriod of the previous one only.
onFailure_windowed(cb, t) ==
    LET count == IF /\ ~Falsy(cb.state.lastFailureTime)
                    /\ t - cb.state.lastFailureTime > cb.config.monitoringPeriod
                 THEN 1
                 ELSE cb.state.failureCount + 1
        s1 == [cb.state EXCEPT !.failureCount = count,
                               !.lastFailureTime = t]
    IN  IF s1.failureCount >= cb.config.failureThreshold
        THEN [cb EXCEPT !.state = [s1 EXCEPT !.isOpen = TRUE]]
        ELSE [cb EXCEPT !.state = s1]

onFailure(cb, t) ==
    LET s1 == [cb.state EXCEPT !.failureCount = @ + 1,
                               !.lastFailureTime = t]
    IN  IF s1.failureCount >= cb.config.failureThreshold
        THEN [cb EXCEPT !.state = [s1 EXCEPT !.isOpen = TRUE]]
        ELSE [cb EXCEPT !.state = s1]

getState(cb) == cb.state

\* The counters and times cleared, the flag forgotten.
reset_keepOpen(cb) == [cb EXCEPT !.state = [InitialState EXCEPT !.isOpen = cb.state.isOpen]]

\* The flag cleared, the state object otherwise kept.
reset_keepCounters(cb) == [cb EXCEPT !.state = [cb.state EXCEPT !.isOpen = FALSE]]

reset(cb) == [cb EXCEPT !.state = InitialState]

\* The failure count cleared when a trial is admitted.
attemptReset_zeroFailures(cb) ==
    [cb EXCEPT !.state = [cb.state EXCEPT !.isOpen = FALSE, !.successCount = 0,
                                          !.failureCount = 0]]

\* The flag left set when a trial is admitted.
attemptReset_staysOpen(cb) ==
    [cb EXCEPT !.state = [cb.state EXCEPT !.successCount = 0]]

\* The gate of execute(): the part before the operation is invoked.
attemptReset(cb) ==
    [cb EXCEPT !.state = [cb.state EXCEPT !.isOpen = FALSE, !.successCount = 0]]

Rejects(cb, t) == isOpen(cb) /\ ~shouldAttemptReset(cb, t)

AdmitsTrial(cb, t) == isOpen(cb) /\ shouldAttemptReset(cb, t)

NoConfig == PartialConfig(null, null, null, null)

Event(op, name, invoked, wasTrial, outcome, observed) ==
    [op |-> op, name |-> name, invoked |-> invoked, trial |-> wasTrial,
     outcome |-> outcome, observed |-> observed, config |-> NoConfig]

\* A rejected call recorded as a failure at the time of the call.
execute_countRejection(n) ==
    /\ n \in DOMAIN circuitBreakers
    /\ LET cb == circuitBreakers[n]
       IN  IF Rejects(cb, now)
           THEN /\ event' = Event("execute", n, 0, FALSE, NoResult, CircuitBreakerError(n))
                /\ circuitBreakers' =
                       [circuitBreakers EXCEPT ![n].state.lastFailureTime = now]
                /\ UNCHANGED <<pending, trial, fresh>>
           ELSE /\ pending[n] < MaxPending
                /\ circuitBreakers' =
                       [circuitBreakers EXCEPT ![n] = IF isOpen(cb) THEN attemptReset(cb) ELSE cb]
                /\ pending' = [pending EXCEPT ![n] = @ + 1]
                /\ event' = Event("execute", n, 1, isOpen(cb), NoResult, NoResult)
                /\ trial' = [trial EXCEPT ![n] = IF isOpen(cb) THEN 0 ELSE @]
                /\ fresh' = [fresh EXCEPT ![n] = IF isOpen(cb) THEN FALSE ELSE @]
    /\ UNCHANGED <<now, run, constructed, limiterVars, handlerVars>>

\* execute(operation) up to the await: throws CircuitBreakerError, or calls the operation.
execute(n) ==
    /\ n \in DOMAIN circuitBreakers
    /\ LET cb == circuitBreakers[n]
       IN  IF Rejects(cb, now)
           THEN /\ event' = Event("execute", n, 0, FALSE, NoResult, CircuitBreakerError(n))
                /\ UNCHANGED <<circuitBreakers, pending, trial, fresh>>
           ELSE /\ pending[n] < MaxPending
                /\ circuitBreakers' =
                       [circuitBreakers EXCEPT ![n] = IF isOpen(cb) THEN attemptReset(cb) ELSE cb]
                /\ pending' = [pending EXCEPT ![n] = @ + 1]
                /\ event' = Event("execute", n, 1, isOpen(cb), NoResult, NoResult)
                /\ trial' = [trial EXCEPT ![n] = IF isOpen(cb) THEN 0 ELSE @]
                /\ fresh' = [fresh EXCEPT ![n] = IF isOpen(cb) THEN FALSE ELSE @]
    /\ UNCHANGED <<now, run, constructed, limiterVars, handlerVars>>

\* A failure of the operation reported as a circuit-breaker error.
afterAwait_wrap(cb, o, t) ==
    IF o.kind = "value"
    THEN [breaker |-> onSuccess(cb, t), observed |-> o]
    ELSE [breaker |-> onFailure(cb, t), observed |-> CircuitBreakerError("-")]

\* The try/catch around the await: record the outcome, then return or rethrow it.
afterAwait(cb, o, t) ==
    IF o.kind = "value"
    THEN [breaker |-> onSuccess(cb, t), observed |-> o]
    ELSE [breaker |-> onFailure(cb, t), observed |-> o]

\* execute(operation) after the await: the operation settled with outcome o.
settle(n, o) ==
    /\ n \in DOMAIN circuitBreakers
    /\ pending[n] > 0
    /\ pending' = [pending EXCEPT ![n] = @ - 1]
    /\ LET cb == circuitBreakers[n]
           done == afterAwait(cb, o, now)
       IN  /\ circuitBreakers' = [circuitBreakers EXCEPT ![n] = done.breaker]
           /\ event' = Event("settle", n, 0, FALSE, o, done.observed)
           /\ IF o.kind = "value"
              THEN /\ run' = [run EXCEPT ![n] = 0]
                   /\ trial' = [trial EXCEPT ![n] =
                                   IF @ < 0 THEN @
                                   ELSE IF @ + 1 >= cb.config.successThreshold THEN -1 ELSE @ + 1]
              ELSE /\ cb.state.failureCount < MaxFailureCount
                   /\ run' = [run EXCEPT ![n] = @ + 1]
                   /\ trial' = [trial EXCEPT ![n] = -1]
    /\ UNCHANGED <<now, fresh, constructed, limiterVars, handlerVars>>

\* breaker.reset()
resetBreaker(n) ==
    /\ n \in DOMAIN circuitBreakers
    /\ circuitBreakers' = [circuitBreakers EXCEPT ![n] = reset(@)]
    /\ run' = [run EXCEPT ![n] = 0]
    /\ trial' = [trial EXCEPT ![n] = -1]
    /\ fresh' = [fresh EXCEPT ![n] = TRUE]
    /\ event' = Event("reset", n, 0, FALSE, NoResult, NoResult)
    /\ UNCHANGED <<now, pending, constructed, limiterVars, handlerVars>>

-----------------------------------------------------------------------------
(* CircuitBreakerRegistry *)

\* The has() test dropped: every request constructs.
get_overwrite(n, config) ==
    /\ circuitBreakers' =
           [x \in DOMAIN circuitBreakers \cup {n} |->
               IF x = n THEN CircuitBreaker(config) ELSE circuitBreakers[x]]
    /\ constructed' = [constructed EXCEPT ![n] = @ + 1]
    /\ event' = [Event("get", n, 0, FALSE, NoResult, NoResult) EXCEPT !.config = config]
    /\ UNCHANGED <<now, pending, run, trial, fresh, limiterVars, handlerVars>>

get(n, config) ==
    /\ IF n \notin DOMAIN circuitBreakers
       THEN /\ circuitBreakers' =
                   [x \in DOMAIN circuitBreakers \cup {n} |->
                       IF x = n THEN CircuitBreaker(config) ELSE circuitBreakers[x]]
            /\ constructed' = [constructed EXCEPT ![n] = @ + 1]
       ELSE UNCHANGED <<circuitBreakers, constructed>>
    /\ event' = [Event("get", n, 0, FALSE, NoResult, NoResult) EXCEPT !.config = config]
    /\ UNCHANGED <<now, pending, run, trial, fresh, limiterVars, handlerVars>>

getAll == [n \in DOMAIN circuitBreakers |-> getState(circuitBreakers[n])]

resetAll ==
    /\ circuitBreakers' = [n \in DOMAIN circuitBreakers |-> reset(circuitBreakers[n])]
    /\ run' = [n \in Names |-> IF n \in DOMAIN circuitBreakers THEN 0 ELSE run[n]]
    /\ trial' = [n \in Names |-> IF n \in DOMAIN circuitBreakers THEN -1 ELSE trial[n]]
    /\ fresh' = [n \in Names |-> IF n \in DOMAIN circuitBreakers THEN TRUE ELSE fresh[n]]
    /\ event' = Event("resetAll", "-", 0, FALSE, NoResult, NoResult)
    /\ UNCHANGED <<now, pending, constructed, limiterVars, handlerVars>>

-----------------------------------------------------------------------------
(* Error taxonomy *)

\* A property that is absent or undefined.
Undefined == "undefined"

\* x = default in a parameter list: the default replaces an undefined argument.
Default(x, d) == IF x = Undefined THEN d ELSE x

\* ErrorContext; additionalData is a set of <<key, value>> pairs.
ErrorContext(requestId, path, method, userAgent, additionalData) ==
    [timestamp |-> "timestamp", userId |-> Undefined, requestId |-> requestId, path |-> path,
     method |-> method, userAgent |-> userAgent, additionalData |-> additionalData]

NoContext == ErrorContext(Undefined, Undefined, Undefined, Undefined, {})

\* The stack Error.captureStackTrace records on an AppError.
CapturedStack == "at new AppError (errors.ts:105)"

\* AppError.constructor
AppError(class, message, code, severity, statusCode, context, isOperational) ==
    [class |-> class, message |-> message, code |-> code, severity |-> severity,
     statusCode |-> statusCode, context |-> context, isOperational |-> isOperational,
     stack |-> CapturedStack]

ValidationError(message, context) ==
    AppError("ValidationError", Default(message, "Validation failed"),
             "VALIDATION_ERROR", "LOW", 400, context, TRUE)

AuthenticationError(message, context) ==
    AppError("AuthenticationError", Default(message, "Authentication failed"),
             "AUTHENTICATION_ERROR", "HIGH", 401, context, TRUE)

AuthorizationError(message, context) ==
    AppError("AuthorizationError", Default(message, "Insufficient permissions"),
             "AUTHORIZATION_ERROR", "HIGH", 403, context, TRUE)

NotFoundError(message, context) ==
    AppError("NotFoundError", Default(message, "Resource not found"),
             "NOT_FOUND", "LOW", 404, context, TRUE)

ConflictError(message, context) ==
    AppError("ConflictError", Default(message, "Resource conflict"),
             "CONFLICT_ERROR", "MEDIUM", 409, context, TRUE)

\* RateLimitError with its status changed to 503.
RateLimitError_unavailable(message, context) ==
    AppError("RateLimitError", Default(message, "Rate limit exceeded"),
             "RATE_LIMIT_EXCEEDED", "MEDIUM", 503, context, TRUE)

RateLimitError(message, context) ==
    AppError("RateLimitError", Default(message, "Rate limit exceeded"),
             "RATE_LIMIT_EXCEEDED", "MEDIUM", 429, context, TRUE)

DatabaseError(message, context, isOperational) ==
    AppError("DatabaseError", Default(message, "Database operation failed"),
             "DATABASE_ERROR", "CRITICAL", 500, context, isOperational)

ExternalServiceError(message, context) ==
    AppError("ExternalServiceError", Default(message, "External service unavailable"),
             "EXTERNAL_SERVICE_ERROR", "HIGH", 502, context, TRUE)

\* CircuitBreakerError as an AppError, with its message and context.
CircuitBreakerOpenError(message, context) ==
    AppError("CircuitBreakerError", Default(message, "Service temporarily unavailable"),
             "CIRCUIT_BREAKER_OPEN", "HIGH", 503, context, TRUE)

\* A thrown value that is not an AppError: an Error with a message and a stack.
PlainError(message, stack) ==
    [class |-> "Error", message |-> message, code |-> Undefined, severity |-> Undefined,
     statusCode |-> 0, context |-> NoContext, isOperational |-> FALSE, stack |-> stack]

NoError == PlainError(Undefined, Undefined)

\* err instanceof AppError
IsAppError(err) == err.class \notin {"Error", "ZodError"}

\* Keys of originalError that InternalServerError writes into additionalData.
OriginalKeys == {"originalError", "originalStack"}

\* { ...context.additionalData, originalError: e?.message, originalStack: e?.stack }
InternalServerError(message, context, originalError) ==
    LET errorContext ==
            [context EXCEPT !.additionalData =
                {kv \in @ : kv[1] \notin OriginalKeys}
                    \cup {<<"originalError", originalError.message>>,
                          <<"originalStack", originalError.stack>>}]
    IN  AppError("InternalServerError", Default(message, "Internal server error"),
                 "INTERNAL_SERVER_ERROR", "CRITICAL", 500, errorContext, FALSE)

-----------------------------------------------------------------------------
(* Requests and responses *)

\* A request body is the set of its leaves, <<path, value>>, the path being
\* the field names from the top; isObject tells an object from no body.
\* user is the id of req.user, Undefined for a request without authenticated user.
Request(id, path, method, userAgent, body, isObject, user) ==
    [id |-> id, path |-> path, method |-> method, userAgent |-> userAgent,
     body |-> body, isObject |-> isObject, user |-> user]

NoRequest == Request(Undefined, Undefined, Undefined, Undefined, {}, FALSE, Undefined)

Bodies ==
    { {<< <<"email">>, "ann@example.com" >>, << <<"password">>, "hunter2" >>},
      {<< <<"user", "name">>, "ann" >>, << <<"user", "password">>, "hunter2" >>},
      {<< <<"token">>, "tok-1" >>, << <<"apiKey">>, "key-1" >>, << <<"note">>, "hello" >>},
      {<< <<"password", "hash">>, "h4sh" >>, << <<"name">>, "ann" >>},
      {} }

Users == {"user-1", Undefined}

Requests ==
    {Request(id, path, "POST", ua, body, TRUE, Undefined) :
        id \in {"req-1", Undefined}, path \in {"/api/users", "/nowhere"},
        ua \in {"curl/8", Undefined}, body \in Bodies}
      \cup {Request("req-1", "/api/users", "GET", "curl/8", {}, FALSE, user) : user \in Users}
      \cup {Request(Undefined, "/api/users", "POST", Undefined, {}, TRUE, "user-1")}

\* audited: the action of the auditLogMiddleware that has overridden res.end;
\* ends: the number of times res.end has been invoked.
NoResponse == [status |-> 0, body |-> {}, audited |-> Undefined, ends |-> 0]

NoHandled == [raised |-> NoError, appError |-> NoError, by |-> "-"]

NodeEnvs == {"development", "production", "test", Undefined}

\* The envelope with the stack whatever the environment.
toJSON_always(err, env) ==
    [success |-> "false",
     error |-> [code |-> err.code, message |-> err.message, severity |-> err.severity,
                context |-> err.context, stack |-> err.stack]]

\* AppError.toJSON
toJSON(err, env) ==
    [success |-> "false",
     error |-> [code |-> err.code, message |-> err.message, severity |-> err.severity,
                context |-> err.context,
                stack |-> IF env = "development" THEN err.stack ELSE Undefined]]

\* res.json(envelope): the leaves of the serialized envelope; JSON.stringify
\* leaves out the properties whose value is undefined.
Json(envelope) ==
    LET e == envelope.error
        c == e.context
        all == { << <<"success">>, envelope.success >>,
                 << <<"error", "code">>, e.code >>,
                 << <<"error", "message">>, e.message >>,
                 << <<"error", "severity">>, e.severity >>,
                 << <<"error", "stack">>, e.stack >>,
                 << <<"error", "context", "timestamp">>, c.timestamp >>,
                 << <<"error", "context", "userId">>, c.userId >>,
                 << <<"error", "context", "requestId">>, c.requestId >>,
                 << <<"error", "context", "path">>, c.path >>,
                 << <<"error", "context", "method">>, c.method >>,
                 << <<"error", "context", "userAgent">>, c.userAgent >> }
               \cup { << <<"error", "context", "additionalData", kv[1]>>, kv[2] >> :
                        kv \in c.additionalData }
    IN  {leaf \in all : leaf[2] # Undefined}

Response(status, envelope) == [status |-> status, body |-> Json(envelope)]

-----------------------------------------------------------------------------
(* Rate limiting *)

MaxHits == 6

\* The instants at which the limiter's clock is sampled, around the end of a
\* 15-minute window that started at instant 1.
LimiterInstants == {1, 2, 900000, 900001}

Ips == {"10.0.0.1"}

HealthPath == "/health"

LimitedPaths == {HealthPath, "/api/auth/login"}

ApiWindowMs == 15 * 60 * 1000
ApiMax == 100
AuthWindowMs == 15 * 60 * 1000
AuthMax == 5
AiWindowMs == 60 * 60 * 1000
AiMax == 10

\* The options given to rateLimit(); skipsHealth: the skip option is the health-check test.
apiRateLimit ==
    [name |-> "api", windowMs |-> ApiWindowMs, max |-> ApiMax, skipsHealth |-> TRUE,
     message |-> "Rate limit exceeded"]

authRateLimit ==
    [name |-> "auth", windowMs |-> AuthWindowMs, max |-> AuthMax, skipsHealth |-> FALSE,
     message |-> "Authentication rate limit exceeded"]

aiRateLimit ==
    [name |-> "ai", windowMs |-> AiWindowMs, max |-> AiMax, skipsHealth |-> FALSE,
     message |-> "AI rate limit exceeded"]

RateLimitRules == {apiRateLimit, authRateLimit, aiRateLimit}

RuleNames == {r.name : r \in RateLimitRules}

\* skip: (req) => req.path === '/health', where the rule has one
skip(rule, path) == rule.skipsHealth /\ path = HealthPath

\* The handler forgets to throw: the request goes on.
handler_silent(rule, requestId, path, method) == NoError

\* handler: throws the RateLimitError of the rule
handler(rule, requestId, path, method) ==
    RateLimitError(rule.message,
                   ErrorContext(Default(requestId, "unknown"), path, method, Undefined, {}))

NoCounter == [count |-> 0, windowStart |-> null]

\* RateLimitCounter: a key's first attempt, or one after the window expired,
\* starts a window with count 1; any other attempt increments the count.
Increment(counter, windowMs, t) ==
    IF counter.windowStart = null \/ t - counter.windowStart >= windowMs
    THEN [count |-> 1, windowStart |-> t]
    ELSE [counter EXCEPT !.count = @ + 1]

Decision(rule, key, path, counted, allowed, count, error) ==
    [rule |-> rule, key |-> key, path |-> path, counted |-> counted, allowed |-> allowed,
     count |-> count, error |-> error]

\* One request through the middleware rateLimit(rule) returns.
limit(rule, key, path) ==
    /\ IF skip(rule, path)
       THEN /\ decision' = Decision(rule.name, key, path, FALSE, TRUE, 0, NoError)
            /\ UNCHANGED hits
       ELSE LET counter == Increment(hits[rule.name][key], rule.windowMs, now)
                thrown == IF counter.count > rule.max
                          THEN handler(rule, Undefined, path, "POST")
                          ELSE NoError
            IN  /\ counter.count <= MaxHits
                /\ hits' = [hits EXCEPT ![rule.name][key] = counter]
                /\ decision' = Decision(rule.name, key, path, TRUE, thrown = NoError,
                                        counter.count, thrown)
    /\ UNCHANGED <<circuitBreakers, now, pending, event, run, trial, fresh, constructed,
                   handlerVars>>

LimiterTick ==
    /\ \E t \in LimiterInstants : t > now /\ now' = t
    /\ decision' = Decision("-", "-", "-", FALSE, TRUE, 0, NoError)
    /\ UNCHANGED <<circuitBreakers, pending, event, run, trial, fresh, constructed,
                   hits, handlerVars>>

-----------------------------------------------------------------------------
(* Central error handler, not-found handler, async wrapper, body validation *)

\* a || b on strings: the empty string and undefined are falsy.
OrString(a, b) == IF a = "" \/ a = Undefined THEN b ELSE a

\* Every error wrapped, AppErrors too.
toAppError_always(err, r) ==
    InternalServerError(OrString(err.message, "An unexpected error occurred"),
                        ErrorContext(r.id, r.path, r.method, r.userAgent, {}), err)

\* errorHandler: convert unknown errors to AppError
toAppError(err, r) ==
    IF ~IsAppError(err)
    THEN InternalServerError(OrString(err.message, "An unexpected error occurred"),
                             ErrorContext(r.id, r.path, r.method, r.userAgent, {}), err)
    ELSE err

\* errorHandler: add request context to error
addRequestContext(appError, r) ==
    [appError EXCEPT !.context.requestId = r.id,
                     !.context.path = r.path,
                     !.context.method = r.method,
                     !.context.userAgent = r.userAgent]

getLogLevel(severity) ==
    CASE severity \in {"CRITICAL", "HIGH"} -> "error"
      [] severity = "MEDIUM" -> "warn"
      [] OTHER -> "info"

sensitiveFields == {"password", "token", "secret", "apiKey", "api_key"}

\* The top-level keys of a body.
Keys(body) == {leaf[1][1] : leaf \in body}

\* sanitizeRequestBody: a shallow copy whose sensitive top-level fields are '[REDACTED]'
sanitizeRequestBody(body, isObject) ==
    IF ~isObject
    THEN body
    ELSE {leaf \in body : leaf[1][1] \notin sensitiveFields}
           \cup {<< <<field>>, "[REDACTED]" >> : field \in sensitiveFields \cap Keys(body)}

LogEntry(by, level, error, body) ==
    [by |-> by, level |-> level, error |-> error, body |-> body]

\* a || b on numbers: 0 is falsy
OrNumber(a, b) == IF a = 0 THEN b ELSE a

\* res.status(statusCode).json(body) on response r; json() ends the response.
respond(r, response) ==
    [r EXCEPT !.status = response.status, !.body = response.body, !.ends = @ + 1]

SENSITIVE_OPERATIONS == {"USER_LOGIN"}

MaxEnds == 2

\* The status codes a route answers with on its own.
AnswerStatuses == {199, 200, 302, 399, 400}

\* The boundaries compared the other way round: 200 excluded, 400 included.
result_boundaries(statusCode) ==
    IF statusCode > 200 /\ statusCode <= 400 THEN "success" ELSE "failure"

\* auditLogMiddleware: res.statusCode >= 200 && res.statusCode < 400 ? 'success' : 'failure'
result(statusCode) ==
    IF statusCode >= 200 /\ statusCode < 400 THEN "success" ELSE "failure"

\* auditLogMiddleware: req.user?.id || 'anonymous'
userId(rq) == OrString(rq.user, "anonymous")

\* auditLog(action, userId, details, result): logger.info('Audit Log', ...)
auditLog(action, user, details, outcome) ==
    [by |-> "auditLog", level |-> "info", error |-> NoError, body |-> {},
     action |-> action, userId |-> user, details |-> details, result |-> outcome]

\* The log after res.end() has been invoked on response r of request rq: the
\* override installed by auditLogMiddleware emits a record on every invocation.
end(r, rq, lg) ==
    IF r.audited = Undefined
    THEN lg
    ELSE Append(lg, auditLog(r.audited, userId(rq),
                             [method |-> rq.method, path |-> rq.path,
                              userAgent |-> rq.userAgent, statusCode |-> r.status],
                             result(r.status)))

\* auditLogMiddleware(action): override res.end, then next().
auditLogMiddleware(action) ==
    /\ stage = "routing"
    /\ res.audited = Undefined
    /\ res' = [res EXCEPT !.audited = action]
    /\ UNCHANGED <<circuitBreakers, now, pending, event, run, trial, fresh, constructed,
                   limiterVars, nodeEnv, req, stage, nextCalls, logs, handled>>

\* res.end() is invoked again on a response that has been sent.
endAgain ==
    /\ stage = "responded"
    /\ res.ends < MaxEnds
    /\ res' = [res EXCEPT !.ends = @ + 1]
    /\ logs' = end(res', req, logs)
    /\ UNCHANGED <<circuitBreakers, now, pending, event, run, trial, fresh, constructed,
                   limiterVars, nodeEnv, req, stage, nextCalls, handled>>

\* A request arrives and enters the middleware chain.
arrive(r) ==
    /\ stage \in {"idle", "responded"}
    /\ req' = r
    /\ stage' = "routing"
    /\ nextCalls' = << >>
    /\ res' = NoResponse
    /\ logs' = << >>
    /\ handled' = NoHandled
    /\ UNCHANGED <<circuitBreakers, now, pending, event, run, trial, fresh, constructed,
                   limiterVars, nodeEnv>>

\* A middleware or route throws synchronously: Express passes the error on.
raise(err) ==
    /\ stage = "routing"
    /\ nextCalls' = Append(nextCalls, err)
    /\ handled' = [handled EXCEPT !.raised = err]
    /\ stage' = "error"
    /\ UNCHANGED <<circuitBreakers, now, pending, event, run, trial, fresh, constructed,
                   limiterVars, nodeEnv, req, res, logs>>

errorHandler ==
    /\ stage = "error"
    /\ LET err == nextCalls[Len(nextCalls)]
           appError == addRequestContext(toAppError(err, req), req)
           logLevel == getLogLevel(appError.severity)
           statusCode == OrNumber(appError.statusCode, 500)
           entry == LogEntry("errorHandler", logLevel, appError,
                             sanitizeRequestBody(req.body, req.isObject))
       IN  /\ res' = respond(res, Response(statusCode, toJSON(appError, nodeEnv)))
           /\ logs' = end(res', req, Append(logs, entry))
           /\ handled' = [raised |-> err, appError |-> appError, by |-> "errorHandler"]
    /\ stage' = "responded"
    /\ UNCHANGED <<circuitBreakers, now, pending, event, run, trial, fresh, constructed,
                   limiterVars, nodeEnv, req, nextCalls>>

notFoundHandler ==
    /\ stage = "routing"
    /\ LET error == ValidationError("Route not found",
                                    ErrorContext(req.id, req.path, req.method, Undefined, {}))
       IN  /\ res' = respond(res, Response(404, toJSON(error, nodeEnv)))
           /\ logs' = end(res', req, logs)
           /\ handled' = [raised |-> NoError, appError |-> error, by |-> "notFoundHandler"]
    /\ stage' = "responded"
    /\ UNCHANGED <<circuitBreakers, now, pending, event, run, trial, fresh, constructed,
                   limiterVars, nodeEnv, req, nextCalls>>

\* The rejection left unobserved.
asyncHandler_noCatch(outcome) == << >>

\* asyncHandler: Promise.resolve(fn(req, res, next)).catch(next) - the calls
\* to next made for an outcome of the handler's promise
asyncHandler(outcome) == IF outcome = NoError THEN << >> ELSE <<outcome>>

\* A route wrapped by asyncHandler is invoked; its promise is pending.
asyncCall ==
    /\ stage = "routing"
    /\ stage' = "pending"
    /\ UNCHANGED <<circuitBreakers, now, pending, event, run, trial, fresh, constructed,
                   limiterVars, nodeEnv, req, nextCalls, res, logs, handled>>

\* The wrapped route's promise settles: fulfilled (the route answered) or rejected.
asyncSettle(outcome) ==
    /\ stage = "pending"
    /\ nextCalls' = nextCalls \o asyncHandler(outcome)
    /\ handled' = [raised |-> outcome, appError |-> NoError, by |-> "asyncHandler"]
    /\ IF outcome = NoError
       THEN /\ \E status \in AnswerStatuses :
                   res' = respond(res, [status |-> status,
                                        body |-> {<< <<"success">>, "true" >>}])
            /\ logs' = end(res', req, logs)
            /\ stage' = "responded"
       ELSE /\ res' = res
            /\ logs' = logs
            /\ stage' = IF nextCalls' = << >> THEN "unhandled" ELSE "error"
    /\ UNCHANGED <<circuitBreakers, now, pending, event, run, trial, fresh, constructed,
                   limiterVars, nodeEnv, req>>

\* validateBody(schema): the body does not parse (ZodError) - log and answer 400.
validateBodyFails ==
    /\ stage = "routing"
    /\ LET validationError ==
               ValidationError("Request body validation failed",
                               ErrorContext(Default(req.id, "unknown"), req.path, req.method,
                                            Undefined, {<<"errors", "zod issues">>}))
       IN  /\ res' = respond(res, Response(400, toJSON(validationError, nodeEnv)))
           /\ logs' = end(res', req, Append(logs, LogEntry("validateBody", "warn", NoError,
                                                           req.body)))
           /\ handled' = [raised |-> NoError, appError |-> validationError, by |-> "validateBody"]
    /\ stage' = "responded"
    /\ UNCHANGED <<circuitBreakers, now, pending, event, run, trial, fresh, constructed,
                   limiterVars, nodeEnv, req, nextCalls>>

\* isOperational = false in DatabaseError's parameter list.
DefaultIsOperational == FALSE

\* The ten error kinds, each constructed without arguments.
DefaultErrors ==
    { ValidationError(Undefined, NoContext),
      AuthenticationError(Undefined, NoContext),
      AuthorizationError(Undefined, NoContext),
      NotFoundError(Undefined, NoContext),
      ConflictError(Undefined, NoContext),
      RateLimitError(Undefined, NoContext),
      DatabaseError(Undefined, NoContext, DefaultIsOperational),
      ExternalServiceError(Undefined, NoContext),
      CircuitBreakerOpenError(Undefined, NoContext),
      InternalServerError(Undefined, NoContext, NoError) }

\* The errors routes and middleware raise while handling request r.
RaisedErrors(r) ==
    DefaultErrors \cup
    { PlainError("boom", "at route (users.ts:12)"),
      PlainError("", "at route (users.ts:12)"),
      InternalServerError("Failed to create user", NoContext,
                          PlainError("Failed to create user", "at createError (errorHandler.ts:165)")),
      handler(authRateLimit, r.id, r.path, r.method),
      NotFoundError("User not found",
                    ErrorContext("job-7", "/jobs/sync", "PUT", "worker/1", {})) }

StackValues ==
    {CapturedStack, "at route (users.ts:12)", "at createError (errorHandler.ts:165)"}

HandlerInit ==
    /\ circuitBreakers = << >>
    /\ now = 1
    /\ pending = [n \in Names |-> 0]
    /\ event = Event("init", "-", 0, FALSE, NoResult, NoResult)
    /\ run = [n \in Names |-> 0]
    /\ trial = [n \in Names |-> -1]
    /\ fresh = [n \in Names |-> TRUE]
    /\ constructed = [n \in Names |-> 0]
    /\ hits = [r \in RuleNames |-> [k \in Ips |-> NoCounter]]
    /\ decision = Decision("-", "-", "-", FALSE, TRUE, 0, NoError)
    /\ nodeEnv \in NodeEnvs
    /\ req = NoRequest
    /\ stage = "idle"
    /\ nextCalls = << >>
    /\ res = NoResponse
    /\ logs = << >>
    /\ handled = NoHandled

\* One request at a time through the error-handling middleware.
HandlerNext ==
    \/ \E r \in Requests : arrive(r)
    \/ \E err \in RaisedErrors(req) : raise(err)
    \/ errorHandler
    \/ notFoundHandler
    \/ asyncCall
    \/ \E outcome \in RaisedErrors(req) \cup {NoError} : asyncSettle(outcome)
    \/ validateBodyFails
    \/ \E action \in SENSITIVE_OPERATIONS : auditLogMiddleware(action)
    \/ endAgain

HandlerSpec == HandlerInit /\ [][HandlerNext]_vars

-----------------------------------------------------------------------------
(* Environment *)

Tick ==
    /\ \E t \in Instants : t > now /\ now' = t
    /\ event' = Event("tick", "-", 0, FALSE, NoResult, NoResult)
    /\ UNCHANGED <<circuitBreakers, pending, run, trial, fresh, constructed, limiterVars, handlerVars>>

Init ==
    /\ circuitBreakers = << >>
    /\ now = 1
    /\ pending = [n \in Names |-> 0]
    /\ event = Event("init", "-", 0, FALSE, NoResult, NoResult)
    /\ run = [n \in Names |-> 0]
    /\ trial = [n \in Names |-> -1]
    /\ fresh = [n \in Names |-> TRUE]
    /\ constructed = [n \in Names |-> 0]
    /\ hits = [r \in RuleNames |-> [k \in Ips |-> NoCounter]]
    /\ decision = Decision("-", "-", "-", FALSE, TRUE, 0, NoError)
    /\ nodeEnv = "production"
    /\ req = NoRequest
    /\ stage = "idle"
    /\ nextCalls = << >>
    /\ res = NoResponse
    /\ logs = << >>
    /\ handled = NoHandled

\* One breaker, overlapping calls.
Next ==
    \/ \E n \in BreakerNames, c \in ConfigInputs : get(n, c)
    \/ \E n \in BreakerNames : execute(n)
    \/ \E n \in BreakerNames, o \in OperationOutcomes : settle(n, o)
    \/ \E n \in BreakerNames : resetBreaker(n)
    \/ Tick

Spec == Init /\ [][Next]_vars

\* One breaker, calls run one at a time.
SeqNext ==
    \/ \E n \in BreakerNames, c \in ConfigInputs : get(n, c)
    \/ \E n \in BreakerNames : pending[n] = 0 /\ execute(n)
    \/ \E n \in BreakerNames, o \in OperationOutcomes : settle(n, o)
    \/ \E n \in BreakerNames : resetBreaker(n)
    \/ Tick

SeqSpec == Init /\ [][SeqNext]_vars

\* The registry with several breakers, the calls on each running one at a time.
RegistryNext ==
    \/ \E n \in Names, c \in RegistryConfigInputs : get(n, c)
    \/ \E n \in Names : pending[n] = 0 /\ execute(n)
    \/ \E n \in Names, o \in OperationOutcomes : settle(n, o)
    \/ \E n \in Names : resetBreaker(n)
    \/ resetAll
    \/ Tick /\ now' <= RegistryMaxTime

RegistrySpec == Init /\ [][RegistryNext]_vars

\* The three rate-limit rules, one caller.
LimiterNext ==
    \/ \E rule \in RateLimitRules, key \in Ips, path \in LimitedPaths : limit(rule, key, path)
    \/ LimiterTick

LimiterSpec == Init /\ [][LimiterNext]_vars

\* Configurations with a monitoringPeriod of 1 ms.
PairConfigInputs == {PartialConfig(f, s, 1, 1) : f \in {1, 2}, s \in {1, 2}}

\* The same configuration with monitoringPeriod left to its default.
OtherMonitoringPeriod(config) == [config EXCEPT !.monitoringPeriod = null]

\* Two breakers that differ in monitoringPeriod only are fed the same timed
\* sequence of calls: each step on "ai" is repeated on "db" before anything
\* else happens.  Calls run one at a time and failures are spread in time.
PairNext ==
    \/ event.name # "ai" /\ \E c \in PairConfigInputs : get("ai", c)
    \/ event.name # "ai" /\ pending["ai"] = 0 /\ execute("ai")
    \/ /\ event.name # "ai"
       /\ "ai" \in DOMAIN circuitBreakers
       /\ \E o \in OperationOutcomes :
             /\ o.kind = "error" => now > circuitBreakers["ai"].state.lastFailureTime
             /\ settle("ai", o)
    \/ event.name # "ai" /\ Tick
    \/ event.name = "ai" /\ event.op = "get" /\ get("db", OtherMonitoringPeriod(event.config))
    \/ event.name = "ai" /\ event.op = "execute" /\ execute("db")
    \/ event.name = "ai" /\ event.op = "settle" /\ settle("db", event.outcome)

PairSpec == Init /\ [][PairNext]_vars

\* The dependency has recovered: from the end of the dense prefix of the clock
\* on, every operation that is invoked succeeds.
Recovered == now >= MaxTime

\* One breaker, obtained once, overlapping calls, a dependency that recovers.
LiveNext ==
    \/ \E n \in BreakerNames, c \in ConfigInputs : n \notin DOMAIN circuitBreakers /\ get(n, c)
    \/ \E n \in BreakerNames : execute(n)
    \/ \E n \in BreakerNames, o \in OperationOutcomes :
          /\ o.kind = "error" => ~Recovered
          /\ settle(n, o)
    \/ Tick

\* Calls keep arriving, time keeps advancing, invoked operations complete.
LiveSpec ==
    /\ Init
    /\ [][LiveNext]_vars
    /\ WF_vars(Tick)
    /\ \A n \in BreakerNames : WF_vars(execute(n))
    /\ \A n \in BreakerNames : WF_vars(settle(n, OperationResult))

TypeOK ==
    /\ now \in Instants
    /\ \A n \in DOMAIN circuitBreakers : circuitBreakers[n].state.failureCount >= 0

-----------------------------------------------------------------------------
(* Properties *)

\* The step is the gate of an execute() call on breaker n.
Called(n) == event'.op = "execute" /\ event'.name = n

\* The step is the continuation of an execute() call on breaker n.
Settled(n) == event'.op = "settle" /\ event'.name = n

Failed(n) == Settled(n) /\ event'.outcome.kind = "error"

Succeeded(n) == Settled(n) /\ event'.outcome.kind = "value"

\* The call of this step was refused with the circuit-open error, the operation not invoked.
Refused(n) ==
    /\ event'.invoked = 0
    /\ event'.observed.kind = "error"
    /\ event'.observed.code = "CIRCUIT_BREAKER_OPEN"
    /\ event'.observed.statusCode = 503
    /\ pending' = pending

\* The call of this step invoked the operation, once.
Invoked(n) ==
    /\ event'.invoked = 1
    /\ event'.observed.kind = "none"
    /\ pending'[n] = pending[n] + 1

\* C1: with calls running one at a time, a breaker that has admitted no trial
\* since it was constructed or reset is open exactly when F consecutive failed
\* operations have been recorded, never after fewer and never later; after
\* fewer than F it is closed and the next call invokes the operation.
C1_OpensOnFthFailure ==
    [][\A n \in DOMAIN circuitBreakers :
          /\ fresh'[n] =>
                /\ isOpen(circuitBreakers'[n]) <=>
                       run'[n] >= circuitBreakers'[n].config.failureThreshold
                /\ run'[n] <= circuitBreakers'[n].config.failureThreshold
          /\ (fresh[n] /\ run[n] < circuitBreakers[n].config.failureThreshold /\ Called(n))
                => Invoked(n)]_vars

C1_Witness ==
    \E n \in DOMAIN circuitBreakers :
        /\ fresh[n]
        /\ circuitBreakers[n].config.failureThreshold >= 2
        /\ run[n] = circuitBreakers[n].config.failureThreshold
        /\ isOpen(circuitBreakers[n])
        /\ event.op = "settle" /\ event.name = n /\ event.outcome.kind = "error"

\* C2: a call on a breaker that is open, less than the timeout after the last
\* recorded failure, fails with the circuit-open error (CIRCUIT_BREAKER_OPEN,
\* 503), does not invoke the operation and leaves the breaker as it was.
C2_OpenRejects ==
    [][\A n \in DOMAIN circuitBreakers :
          LET cb == circuitBreakers[n]
          IN  (/\ Called(n)
               /\ cb.state.isOpen
               /\ cb.state.lastFailureTime # null
               /\ now - cb.state.lastFailureTime < cb.config.timeout)
                  => Refused(n) /\ circuitBreakers' = circuitBreakers]_vars

C2_Witness ==
    \E n \in DOMAIN circuitBreakers :
        LET cb == circuitBreakers[n]
        IN  /\ event.op = "execute" /\ event.name = n
            /\ event.invoked = 0
            /\ event.observed.code = "CIRCUIT_BREAKER_OPEN"
            /\ cb.state.isOpen
            /\ now > cb.state.lastFailureTime
            /\ now - cb.state.lastFailureTime < cb.config.timeout

\* C3: a call on an open breaker is admitted as a trial if and only if the
\* timeout has elapsed since the last failure, now - lastFailureTime >= timeout.
C3_TrialIffElapsed ==
    [][\A n \in DOMAIN circuitBreakers :
          LET cb == circuitBreakers[n]
          IN  (Called(n) /\ cb.state.isOpen)
                  => ((Invoked(n) /\ ~circuitBreakers'[n].state.isOpen)
                        <=> (/\ cb.state.lastFailureTime # null
                             /\ now - cb.state.lastFailureTime >= cb.config.timeout))]_vars

\* C4: in the trial phase any failed call reopens the breaker, so that the
\* next call is refused, and leaves the trial-success counter at 0.
C4_TrialFailureReopens ==
    [][\A n \in DOMAIN circuitBreakers :
          (trial[n] >= 0 /\ Failed(n))
              => /\ circuitBreakers'[n].state.isOpen
                 /\ circuitBreakers'[n].state.successCount = 0
                 /\ Rejects(circuitBreakers'[n], now)]_vars

\* C5: successThreshold successes in a row after a trial was admitted leave
\* the breaker closed with failureCount and successCount 0.  For the breaker
\* with thresholds 3 and 2 and a timeout of 60 s: the third failure in a row
\* opens it, a call 30 s after the last failure is refused, a call 61 s after
\* it invokes the operation.
C5_TrialSuccessesClose ==
    [][\A n \in DOMAIN circuitBreakers :
          LET cb == circuitBreakers[n]
              after == circuitBreakers'[n]
              scenario == cb.config = CircuitBreaker(ScenarioConfig).config
          IN  /\ (trial[n] >= 0 /\ trial[n] + 1 = cb.config.successThreshold /\ Succeeded(n))
                    => /\ ~after.state.isOpen
                       /\ after.state.failureCount = 0
                       /\ after.state.successCount = 0
              /\ (scenario /\ fresh[n] /\ Failed(n) /\ run'[n] = 3)
                    => after.state.isOpen
              /\ (scenario /\ cb.state.isOpen /\ Called(n)
                     /\ now - cb.state.lastFailureTime = 30000)
                    => Refused(n)
              /\ (scenario /\ cb.state.isOpen /\ Called(n)
                     /\ now - cb.state.lastFailureTime = 61000)
                    => Invoked(n) /\ ~after.state.isOpen]_vars

C5_Witness ==
    \E n \in DOMAIN circuitBreakers :
        LET cb == circuitBreakers[n]
        IN  /\ cb.config = CircuitBreaker(ScenarioConfig).config
            /\ event.op = "settle" /\ event.name = n /\ event.outcome.kind = "value"
            /\ ~fresh[n] /\ trial[n] = -1
            /\ cb.state.lastFailureTime # null
            /\ cb.state.lastSuccessTime - cb.state.lastFailureTime = 61000
            /\ ~cb.state.isOpen
            /\ cb.state.failureCount = 0
            /\ cb.state.successCount = 0

\* C6: a success sets the failure count to 0; a failure that leaves fewer than
\* F failures since the last success leaves a closed breaker closed, and the
\* breaker opens only on a failure that makes at least F since the last success.
C6_SuccessResetsFailures ==
    [][\A n \in DOMAIN circuitBreakers :
          LET cb == circuitBreakers[n]
              after == circuitBreakers'[n]
          IN  /\ Succeeded(n) => after.state.failureCount = 0
              /\ (Failed(n) /\ ~cb.state.isOpen /\ run'[n] < cb.config.failureThreshold)
                    => ~after.state.isOpen
              /\ (~cb.state.isOpen /\ after.state.isOpen)
                    => Failed(n) /\ run'[n] >= cb.config.failureThreshold]_vars

C6_Witness ==
    \E n \in DOMAIN circuitBreakers :
        LET cb == circuitBreakers[n]
        IN  /\ cb.config.failureThreshold >= 2
            /\ run[n] = cb.config.failureThreshold - 1
            /\ cb.state.lastSuccessTime # null
            /\ cb.state.lastFailureTime # null
            /\ cb.state.lastFailureTime > cb.state.lastSuccessTime
            /\ fresh[n]
            /\ ~cb.state.isOpen
            /\ event.op = "settle" /\ event.name = n /\ event.outcome.kind = "error"

\* C7: an admitted call invokes the operation once; when the operation
\* settles it is not invoked again and the caller observes its outcome
\* unchanged - never the circuit-open error - and on a failure the breaker
\* has by then counted it, stamped lastFailureTime and opened at the threshold.
C7_OutcomeHandedOn ==
    [][\A n \in DOMAIN circuitBreakers :
          LET cb == circuitBreakers[n]
              after == circuitBreakers'[n]
          IN  /\ (Called(n) /\ ~Rejects(cb, now)) => Invoked(n)
              /\ Settled(n) =>
                    /\ event'.observed = event'.outcome
                    /\ event'.observed.code # "CIRCUIT_BREAKER_OPEN"
                    /\ event'.invoked = 0
                    /\ pending'[n] = pending[n] - 1
              /\ Failed(n) =>
                    /\ after.state.failureCount = cb.state.failureCount + 1
                    /\ after.state.lastFailureTime = now
                    /\ (after.state.failureCount >= cb.config.failureThreshold)
                          => after.state.isOpen]_vars

C7_Witness ==
    \E n \in DOMAIN circuitBreakers :
        LET cb == circuitBreakers[n]
        IN  /\ event.op = "settle" /\ event.name = n
            /\ event.observed.class = "ExternalServiceError"
            /\ cb.state.failureCount = cb.config.failureThreshold
            /\ cb.state.lastFailureTime = now
            /\ cb.state.isOpen

\* C8: an open breaker has a lastFailureTime, under any interleaving of
\* calls, settling operations and resets.
C8_OpenHasFailureTime ==
    \A n \in DOMAIN circuitBreakers :
        circuitBreakers[n].state.isOpen => circuitBreakers[n].state.lastFailureTime # null

C8_Witness ==
    \E n \in DOMAIN circuitBreakers :
        /\ circuitBreakers[n].state.isOpen
        /\ circuitBreakers[n].state.lastFailureTime < now
        /\ fresh[n]
        /\ run[n] = 0
        /\ event.op = "settle" /\ event.outcome.kind = "value"

Zeroed(cb) ==
    /\ ~cb.state.isOpen
    /\ cb.state.failureCount = 0
    /\ cb.state.successCount = 0
    /\ cb.state.lastFailureTime = null

\* C9: after reset() the breaker is closed with failureCount 0, successCount
\* 0 and no lastFailureTime, and a call on it is not refused; after
\* resetAll() this is so for every breaker of the registry.
C9_ResetZeroes ==
    /\ event.op = "reset" =>
          /\ Zeroed(circuitBreakers[event.name])
          /\ ~Rejects(circuitBreakers[event.name], now)
    /\ event.op = "resetAll" =>
          \A n \in DOMAIN circuitBreakers :
              /\ Zeroed(circuitBreakers[n])
              /\ ~Rejects(circuitBreakers[n], now)

C9_Witness ==
    /\ event.op = "resetAll"
    /\ DOMAIN circuitBreakers = Names
    /\ \A n \in Names : pending[n] > 0 /\ Zeroed(circuitBreakers[n])
    /\ now > 1

\* C10: get(name, config) constructs a breaker only when the registry holds
\* none for the name, and then from config; a get for a name it holds changes
\* neither the breaker's state nor its configuration; no name ever has more
\* than one breaker constructed for it and no breaker's configuration changes.
C10_GetCreatesOnce ==
    [][/\ \A n \in Names :
             /\ constructed'[n] <= 1
             /\ (n \in DOMAIN circuitBreakers') <=> constructed'[n] = 1
             /\ (event'.op = "get" /\ event'.name = n /\ n \in DOMAIN circuitBreakers)
                   => /\ circuitBreakers' = circuitBreakers
                      /\ constructed' = constructed
             /\ (event'.op = "get" /\ event'.name = n /\ n \notin DOMAIN circuitBreakers)
                   => circuitBreakers'[n] = CircuitBreaker(event'.config)
       /\ \A n \in DOMAIN circuitBreakers :
             /\ n \in DOMAIN circuitBreakers'
             /\ circuitBreakers'[n].config = circuitBreakers[n].config]_vars

C10_Witness ==
    \E n \in DOMAIN circuitBreakers :
        /\ event.op = "get" /\ event.name = n
        /\ CircuitBreaker(event.config).config # circuitBreakers[n].config
        /\ circuitBreakers[n].state.failureCount > 0
        /\ circuitBreakers[n].state.isOpen
        /\ DOMAIN circuitBreakers = Names

\* The step is one request through the middleware of rule r for caller k.
Limited(r, k) == decision'.rule = r.name /\ decision'.key = k /\ decision'.counted

RateLimited(d) ==
    /\ ~d.allowed
    /\ d.error.class = "RateLimitError"
    /\ d.error.code = "RATE_LIMIT_EXCEEDED"
    /\ d.error.statusCode = 429

\* C11: for a rule with max = N and a caller key, a call that is at most the
\* N-th of its window is allowed, a later call of the window is rejected with
\* the rate-limit error (429), and a call arriving once the window has elapsed
\* restarts the count at 1 and is allowed.
C11_WindowLimit ==
    [][\A r \in RateLimitRules, k \in Ips :
          LET old == hits[r.name][k]
              inWindow == old.windowStart # null /\ now - old.windowStart < r.windowMs
          IN  Limited(r, k) =>
                /\ (inWindow /\ old.count < r.max) =>
                      decision'.allowed /\ decision'.error = NoError
                /\ (inWindow /\ old.count >= r.max) => RateLimited(decision')
                /\ inWindow => hits'[r.name][k].count = old.count + 1
                /\ ~inWindow =>
                      /\ decision'.allowed
                      /\ hits'[r.name][k] = [count |-> 1, windowStart |-> now]]_vars

C11_Witness ==
    /\ decision.rule = "auth"
    /\ decision.count = AuthMax + 1
    /\ RateLimited(decision)
    /\ hits["auth"][decision.key].count = AuthMax + 1
    /\ now > hits["auth"][decision.key].windowStart

\* C12: a request to the health-check path is neither counted nor rejected by
\* any of the three rules.
C12_HealthExempt ==
    [][(decision'.path = HealthPath /\ decision'.rule \in RuleNames)
          => /\ ~decision'.counted
             /\ decision'.allowed
             /\ hits' = hits]_vars


-----------------------------------------------------------------------------
(* Error handling properties, under HandlerSpec *)

\* The log entries emitted by a component for the request.
Logged(by) == {logs[i] : i \in {j \in DOMAIN logs : logs[j].by = by}}

\* The request was answered by the central error handler.
Answered == stage = "responded" /\ handled.by = "errorHandler"

\* The value of a leaf of a serialized body; Undefined when the leaf is absent.
Leaf(body, path) ==
    IF \E leaf \in body : leaf[1] = path
    THEN (CHOOSE leaf \in body : leaf[1] = path)[2]
    ELSE Undefined

\* C13: outside development mode the response body the central error handler
\* sends holds no stack trace, whatever error it handled, wrapped failures
\* included: neither the envelope's stack field nor any field of the
\* serialized context holds a stack.
C13_NoStackOutsideDevelopment ==
    (Answered /\ nodeEnv # "development")
        => \A leaf \in res.body : leaf[2] \notin StackValues

\* The response was serialized from an AppError.
Serialized == stage = "responded" /\ handled.appError # NoError

\* C14: serializing an AppError without the development flag yields an
\* envelope without a stack value; with the flag the envelope's stack holds
\* the error's stack.
C14_StackOnlyInDevelopment ==
    Serialized =>
        Leaf(res.body, <<"error", "stack">>) =
            IF nodeEnv = "development" THEN handled.appError.stack ELSE Undefined

C14_Witness ==
    /\ Serialized
    /\ nodeEnv = "development"
    /\ Leaf(res.body, <<"error", "stack">>) = CapturedStack

\* An AppError that reaches the central handler keeps its code, status and severity.
KeepsKind ==
    (Answered /\ IsAppError(handled.raised)) =>
        /\ handled.appError.code = handled.raised.code
        /\ handled.appError.severity = handled.raised.severity
        /\ res.status = handled.raised.statusCode
        /\ Leaf(res.body, <<"error", "code">>) = handled.raised.code
        /\ Leaf(res.body, <<"error", "severity">>) = handled.raised.severity

\* An error that is not an AppError is answered as an internal error with the given message.
AnsweredAsInternal(message) ==
    /\ handled.appError.code = "INTERNAL_SERVER_ERROR"
    /\ handled.appError.severity = "CRITICAL"
    /\ handled.appError.isOperational = FALSE
    /\ handled.appError.message = message
    /\ res.status = 500
    /\ Leaf(res.body, <<"error", "code">>) = "INTERNAL_SERVER_ERROR"
    /\ Leaf(res.body, <<"error", "severity">>) = "CRITICAL"
    /\ Leaf(res.body, <<"error", "message">>) = message

\* C15 as stated: an error that is not an AppError is answered as an internal
\* error (INTERNAL_SERVER_ERROR, 500, CRITICAL, not operational) whose message
\* is the original error's message; an AppError keeps its code, status and
\* severity.
C15_InternalWithOriginalMessage ==
    /\ (Answered /\ ~IsAppError(handled.raised)) => AnsweredAsInternal(handled.raised.message)
    /\ KeepsKind

\* C15 amended: an error that is not an AppError is answered as an internal
\* error (INTERNAL_SERVER_ERROR, 500, CRITICAL, not operational) whose message
\* is the original error's message when that is not empty and 'An unexpected
\* error occurred' when it is; an AppError keeps its code, status and severity.
C15_InternalWithMessageOrFallback ==
    /\ (Answered /\ ~IsAppError(handled.raised)) =>
            AnsweredAsInternal(IF handled.raised.message \in {"", Undefined}
                               THEN "An unexpected error occurred"
                               ELSE handled.raised.message)
    /\ KeepsKind

C15_Witness ==
    /\ Answered
    /\ ~IsAppError(handled.raised)
    /\ handled.raised.message = ""
    /\ Leaf(res.body, <<"error", "message">>) = "An unexpected error occurred"

ContextFields == {"requestId", "path", "method", "userAgent"}

\* C16: a requestId, path, method or userAgent already present on the AppError
\* when it reaches the central handler is the one in the log entry and in the
\* response; the handler fills in only the fields without a value.
C16_EnrichOnlyAbsent ==
    (Answered /\ IsAppError(handled.raised)) =>
        \A f \in ContextFields :
            handled.raised.context[f] # Undefined =>
                /\ Leaf(res.body, <<"error", "context", f>>) = handled.raised.context[f]
                /\ \A entry \in Logged("errorHandler") :
                        entry.error.context[f] = handled.raised.context[f]

\* The prefixes of a leaf's path that end in a field of the given names.
NamedPrefixes(leaf, names) ==
    {SubSeq(leaf[1], 1, i) : i \in {j \in 1..Len(leaf[1]) : leaf[1][j] \in names}}

\* C17: the sanitized copy of the request body the central handler logs has
\* every field named password replaced by '[REDACTED]' at whatever depth,
\* every field outside the redacted names equal to the original, and the
\* request body itself is left as it arrived.
C17_PasswordRedactedAtAnyDepth ==
    Answered =>
        \A entry \in Logged("errorHandler") :
            \A leaf \in req.body :
                /\ \A prefix \in NamedPrefixes(leaf, {"password"}) :
                        Leaf(entry.body, prefix) = "[REDACTED]"
                /\ NamedPrefixes(leaf, sensitiveFields) = {} => leaf \in entry.body

\* C18: for a request answered with an error by the central handler or by the
\* body validation, no log entry holds the clear-text value of a request-body
\* field named password, token, secret or api key.
C18_NoClearTextSecretLogged ==
    (stage = "responded" /\ handled.by \in {"errorHandler", "validateBody"}) =>
        \A entry \in {logs[i] : i \in DOMAIN logs} :
            \A leaf \in req.body :
                NamedPrefixes(leaf, sensitiveFields) # {} =>
                    \A logged \in entry.body : logged[2] # leaf[2]

\* C19: for an unmatched route the not-found handler answers 404 with an
\* envelope of the not-found kind: code NOT_FOUND and that kind's severity.
C19_NotFoundKind ==
    (stage = "responded" /\ handled.by = "notFoundHandler") =>
        /\ res.status = 404
        /\ Leaf(res.body, <<"error", "code">>) = NotFoundError(Undefined, NoContext).code
        /\ Leaf(res.body, <<"error", "severity">>) = NotFoundError(Undefined, NoContext).severity

\* C20: when a handler wrapped by asyncHandler rejects, the rejection is
\* passed to next exactly once and so reaches the central handler; when it
\* completes without failure next is not called with an error.
C20_RejectionPassedOnce ==
    [][(stage = "pending" /\ stage' # "pending") =>
          IF handled'.raised = NoError
          THEN nextCalls' = nextCalls /\ stage' = "responded"
          ELSE nextCalls' = Append(nextCalls, handled'.raised) /\ stage' = "error"]_vars

C20_Witness ==
    /\ stage = "error"
    /\ handled.by = "asyncHandler"
    /\ nextCalls = <<PlainError("boom", "at route (users.ts:12)")>>


-----------------------------------------------------------------------------
(* Audit, defaults and log levels, under HandlerSpec *)

\* The positions in the log of the entries emitted by a component.
Emitted(by) == {i \in DOMAIN logs : logs[i].by = by}

\* C21: a request that passed through auditLogMiddleware has exactly one audit
\* record once its response is finalized and none before, whether the route
\* answered or the central handler did, however often res.end is invoked.
C21_ExactlyOneAuditRecord ==
    res.audited # Undefined =>
        Cardinality(Emitted("auditLog")) = IF stage = "responded" THEN 1 ELSE 0

\* C22: an audit record's result is 'success' exactly when the status at
\* finalization is in 200..399 and 'failure' otherwise; its actor is the
\* authenticated user's id when the request has one, else 'anonymous'.
C22_AuditResultAndActor ==
    \A i \in Emitted("auditLog") :
        /\ logs[i].details.statusCode = res.status
        /\ logs[i].result = IF 200 <= res.status /\ res.status < 400
                            THEN "success" ELSE "failure"
        /\ logs[i].userId = IF req.user # Undefined THEN req.user ELSE "anonymous"
        /\ logs[i].action = res.audited

C22_Witness ==
    /\ stage = "responded"
    /\ res.status = 399
    /\ \E i \in Emitted("auditLog") :
          logs[i].result = "success" /\ logs[i].userId = "user-1"

\* C23: of the ten error kinds built with their defaults only the database
\* kind has operational = false; every other kind has operational = true.
C23_OnlyDatabaseNotOperational ==
    (stage = "error" /\ handled.raised \in DefaultErrors) =>
        (handled.raised.isOperational = FALSE <=> handled.raised.class = "DatabaseError")

ClientKinds ==
    {"ValidationError", "NotFoundError", "ConflictError", "RateLimitError",
     "AuthorizationError", "AuthenticationError"}

ServerKinds ==
    {"DatabaseError", "InternalServerError", "ExternalServiceError", "CircuitBreakerError"}

\* C24: the central handler emits exactly one log entry per handled error, at
\* the level of its severity (CRITICAL, HIGH: error; MEDIUM: warn; LOW: info),
\* so that default validation, not-found, conflict, rate-limit, authorization
\* and authentication errors are logged at info or warn, and database,
\* internal, external-service and circuit-open errors at error.
C24_LogLevelByKind ==
    (Answered /\ handled.raised \in DefaultErrors) =>
        /\ Cardinality(Emitted("errorHandler")) = 1
        /\ \A i \in Emitted("errorHandler") :
              /\ logs[i].level =
                     CASE handled.raised.severity \in {"CRITICAL", "HIGH"} -> "error"
                       [] handled.raised.severity = "MEDIUM" -> "warn"
                       [] OTHER -> "info"
              /\ handled.raised.class \in ClientKinds => logs[i].level \in {"info", "warn"}
              /\ handled.raised.class \in ServerKinds => logs[i].level = "error"


-----------------------------------------------------------------------------
(* Overlapping calls, frame and invariants of the breaker *)

\* C25: with overlapping calls, a breaker that has opened stays open and
\* refuses every new call, without invoking it, as long as the timeout has not
\* elapsed since the last recorded failure, whatever the outcome of the
\* operations that were admitted before it opened and settle afterwards.
C25_StaysOpenUntilElapsed ==
    [][\A n \in DOMAIN circuitBreakers :
          LET cb == circuitBreakers[n]
          IN  (/\ cb.state.isOpen
               /\ Called(n) \/ Settled(n)
               /\ now - cb.state.lastFailureTime < cb.config.timeout)
                  => /\ circuitBreakers'[n].state.isOpen
                     /\ Called(n) => Refused(n)]_vars

\* C26: after an open breaker admitted a trial call and until an outcome has
\* been recorded, a call that arrives is not invoked: the trial is the only
\* operation started in that phase.
C26_OneTrialInFlight ==
    [][\A n \in DOMAIN circuitBreakers :
          (Called(n) /\ trial[n] = 0) => event'.invoked = 0]_vars

\* C29: a call rejected because the breaker is open leaves the breaker's state
\* as it was - no failure counted, lastFailureTime not moved - so the instants
\* at which a trial is admitted are the same after it as before.
C29_RejectionLeavesState ==
    [][\A n \in DOMAIN circuitBreakers :
          (Called(n) /\ event'.invoked = 0)
              => /\ circuitBreakers'[n] = circuitBreakers[n]
                 /\ \A t \in Instants :
                       AdmitsTrial(circuitBreakers'[n], t) = AdmitsTrial(circuitBreakers[n], t)]_vars

C29_Witness ==
    \E n \in DOMAIN circuitBreakers :
        LET cb == circuitBreakers[n]
        IN  /\ event.op = "execute" /\ event.name = n /\ event.invoked = 0
            /\ cb.state.isOpen
            /\ cb.config.timeout = 2
            /\ now - cb.state.lastFailureTime = cb.config.timeout

\* C30: with calls running one at a time and failureThreshold >= 1, an open
\* breaker has failureCount >= failureThreshold; admitting a trial does not
\* lower failureCount; so the failure of the first trial reopens the breaker.
C30_OpenHasThresholdFailures ==
    [][\A n \in DOMAIN circuitBreakers' :
          LET after == circuitBreakers'[n]
          IN  /\ after.config.failureThreshold >= 1
              /\ after.state.isOpen => after.state.failureCount >= after.config.failureThreshold
              /\ (n \in DOMAIN circuitBreakers /\ Called(n) /\ event'.trial)
                    => after.state.failureCount = circuitBreakers[n].state.failureCount
              /\ (n \in DOMAIN circuitBreakers /\ trial[n] = 0 /\ Failed(n))
                    => after.state.isOpen]_vars

C30_Witness ==
    \E n \in DOMAIN circuitBreakers :
        LET cb == circuitBreakers[n]
        IN  /\ event.op = "settle" /\ event.name = n /\ event.outcome.kind = "error"
            /\ ~fresh[n]
            /\ cb.state.isOpen
            /\ cb.config.failureThreshold = 2
            /\ cb.state.failureCount = 3


-----------------------------------------------------------------------------
(* monitoringPeriod, under PairSpec *)

\* C27: the breaker's decisions depend neither on monitoringPeriod nor on the
\* time between failures: two breakers differing in monitoringPeriod only,
\* given the same timed calls, admit and reject the same calls and are in the
\* same state after each; and failureThreshold failures without a success
\* between them leave the breaker open however far apart they are.
C27_MonitoringPeriodIgnored ==
    [][/\ event'.name = "db" =>
             /\ event'.op = event.op
             /\ event'.invoked = event.invoked
             /\ event'.trial = event.trial
             /\ event'.observed.kind = event.observed.kind
             /\ event'.observed.code = event.observed.code
             /\ pending'["db"] = pending'["ai"]
             /\ circuitBreakers'["db"].state = circuitBreakers'["ai"].state
       /\ \A n \in DOMAIN circuitBreakers :
             (Failed(n) /\ run'[n] >= circuitBreakers[n].config.failureThreshold)
                 => circuitBreakers'[n].state.isOpen]_vars

C27_Witness ==
    /\ event.name = "db" /\ event.op = "settle" /\ event.outcome.kind = "error"
    /\ \A n \in Names :
          /\ n \in DOMAIN circuitBreakers
          /\ circuitBreakers[n].config.failureThreshold = 2
          /\ run[n] = 2
          /\ fresh[n]
          /\ circuitBreakers[n].state.isOpen
          /\ circuitBreakers[n].state.lastFailureTime = 61001
    /\ circuitBreakers["ai"].config.monitoringPeriod = 1
    /\ circuitBreakers["db"].config.monitoringPeriod = DefaultMonitoringPeriod


-----------------------------------------------------------------------------
(* Recovery, under LiveSpec *)

Closed(n) ==
    /\ n \in DOMAIN circuitBreakers
    /\ ~circuitBreakers[n].state.isOpen
    /\ circuitBreakers[n].state.failureCount = 0

Open(n) == n \in DOMAIN circuitBreakers /\ circuitBreakers[n].state.isOpen

\* C28: if the breaker is open and from some point on calls keep arriving,
\* time keeps advancing and every invoked operation succeeds, the breaker is
\* eventually closed with failureCount 0 and stays so.
C28_Recovery == \A n \in BreakerNames : Open(n) ~> [](Closed(n))

C28_Witness ==
    \E n \in BreakerNames :
        /\ Closed(n)
        /\ ~fresh[n]
        /\ Recovered
        /\ circuitBreakers[n].state.lastFailureTime # null
        /\ circuitBreakers[n].state.lastSuccessTime >
               circuitBreakers[n].state.lastFailureTime + circuitBreakers[n].config.timeout

=============================================================================
